---------------------------- MODULE Spec2Model ----------------------------
(***************************************************************************)
(* BaiBaiBot: laddered limit orders around the current price, sized by the *)
(* unencumbered balance, repeated on a fixed interval.                     *)
(*                                                                         *)
(* Three variants of the same engine live in the repository:               *)
(*   "Bot"        baibaibot/bot.py       (Kraken, the original, own loop)  *)
(*   "KrakenAPI"  baibaibot/krakenapi.py (API subclass)                    *)
(*   "GateIOAPI"  baibaibot/gateioapi.py (API subclass)                    *)
(*                                                                         *)
(* Numbers.  Python floats are modelled as decimal fixed point:            *)
(*   prices and volumes   in tenths      (12.3  is 123)                    *)
(*   ledger amounts       in hundredths  (12.34 is 1234)                   *)
(*   percentages          as whole percents                                *)
(*   sqrt(n)              in thousandths (floor)                           *)
(* so that volume * price is exact in the ledger, and round(x, dp) is the  *)
(* only place where a value is rounded (half to even, dp in {0, 1}).       *)
(***************************************************************************)
EXTENDS Integers, Sequences, FiniteSets, TLC

VARIABLES
    adapter,        \* which variant of the engine runs
    configfile,     \* the markets written in the configuration file
    markets,        \* Bot.markets / API.cfg["markets"]
    connected,      \* Bot.krak / KrakenAPI.krak / GateIOAPI.gate is set
    asset_pairs,    \* pair id or altname -> asset pair
    balances,       \* asset -> [total, unencumbered]
    open_order_ids, \* GateIOAPI.open_order_ids: pair -> ids of opening orders
    pc,             \* the position of the loop
    mi,             \* index of the market the for loop is at
    steps,          \* the steps the current cycle has executed, in order
    log,            \* per market attempted in this cycle: what happened
    failed,         \* the global step that raised in this cycle, or "none"
    bal_reply,      \* the exchange's last reply to the balance query
    oo_reply,       \* the exchange's last reply to the open orders query
    enum_count,     \* open order enumerations since the last balance refresh
    refreshed,      \* a balance refresh has completed since the process started
    wire,           \* the last requests sent to the exchange and delays slept
    obj,            \* an object of objects.py given to a conversion, and
                    \* what the conversion built from it
    clock           \* the opening orders resting on the exchange and the
                    \* time each has left, when time is followed

vars == <<adapter, configfile, markets, connected, asset_pairs, balances,
          open_order_ids, pc, mi, steps, log, failed, bal_reply, oo_reply,
          enum_count, refreshed, wire, obj, clock>>

-----------------------------------------------------------------------------
(* Bounds of the model *)

\* the longest list of markets in a configuration file
MaxMarkets == 2
\* the most resting orders the exchange reports in one enumeration
MaxOpen == 2

\* the rungs of a ladder (order_count) when ladders are checked alone
MaxRungs == 3

-----------------------------------------------------------------------------
(* Small helpers *)

EmptyMap == [k \in {} |-> k]

\* no object is being converted
NoObject == [kind |-> "none"]

\* time is not followed
NoClock == [lifespan |-> 0]

Range(s) == {s[i] : i \in DOMAIN s}

Max2(a, b) == IF a >= b THEN a ELSE b
Min2(a, b) == IF a <= b THEN a ELSE b

RECURSIVE SumSeq(_)
SumSeq(s) == IF s = <<>> THEN 0 ELSE Head(s) + SumSeq(Tail(s))

\* round-half-to-even of num/den (den > 0) to an integer: Python's round()
RoundHalfEven(num, den) ==
    LET q == num \div den
        r == num - q * den
    IN  IF r < den - r THEN q
        ELSE IF r > den - r THEN q + 1
        ELSE IF q % 2 = 0 THEN q ELSE q + 1

\* 10^(1-dp) tenths: the rounding unit of dp decimals, dp in {0, 1}
UnitTenths(dp) == IF dp = 0 THEN 10 ELSE 1

\* round(num/den, dp) for a value num/den given in tenths; the result in tenths
RoundDp(num, den, dp) ==
    UnitTenths(dp) * RoundHalfEven(num, den * UnitTenths(dp))

-----------------------------------------------------------------------------
(* The exchange: what its queries can answer *)

Adapters == {"Bot", "KrakenAPI", "GateIOAPI"}

IsKraken(a) == a \in {"Bot", "KrakenAPI"}

Assets == {"XXBT", "XETH", "ZUSD"}

\* the pair listing (Kraken: AssetPairs; gate.io: list_currency_pairs)
KrakenListing ==
    {[id |-> "XXBTZUSD", altname |-> "XBTUSD", base |-> "XXBT",
      quote |-> "ZUSD", lot_decimals |-> 1, pair_decimals |-> 1],
     [id |-> "XETHZUSD", altname |-> "ETHUSD", base |-> "XETH",
      quote |-> "ZUSD", lot_decimals |-> 0, pair_decimals |-> 1]}

GateListing ==
    {[id |-> "XXBTZUSD", base |-> "XXBT", quote |-> "ZUSD",
      amount_precision |-> 1, precision |-> 1],
     [id |-> "XETHZUSD", base |-> "XETH", quote |-> "ZUSD",
      amount_precision |-> 0, precision |-> 1]}

\* Kraken's Balance: asset -> total, in hundredths
KrakenBalances ==
    {[XXBT |-> 1000, XETH |-> 400, ZUSD |-> 5000],
     [XXBT |-> 0, XETH |-> 400, ZUSD |-> 200],
     [XXBT |-> 0, XETH |-> 400, ZUSD |-> 5000]}

\* gate.io's list_spot_accounts: asset -> available and locked, in hundredths
GateAccounts ==
    {[XXBT |-> [available |-> 1000, locked |-> 0],
      XETH |-> [available |-> 400, locked |-> 0],
      ZUSD |-> [available |-> 5000, locked |-> 1000]],
     [XXBT |-> [available |-> 100, locked |-> 400],
      XETH |-> [available |-> 400, locked |-> 0],
      ZUSD |-> [available |-> 200, locked |-> 0]]}

\* resting orders the exchange may report (vol, vol_exec, price in tenths)
RestingOrders ==
    {[pair |-> "XBTUSD", type |-> "buy", vol |-> 50, vol_exec |-> 0,
      price |-> 20],
     [pair |-> "XETHZUSD", type |-> "sell", vol |-> 30, vol_exec |-> 10,
      price |-> 250],
     [pair |-> "ETHUSD", type |-> "buy", vol |-> 20, vol_exec |-> 5,
      price |-> 100]}

\* the sequences over S of length at most n
SeqsUpTo(S, n) == UNION {[1..k -> S] : k \in 0..n}

NoRepeat(s) == \A i, j \in DOMAIN s : i # j => s[i] # s[j]

\* gate.io's list_orders(pair, "open"): left and price in tenths
GateResting ==
    {[currency_pair |-> "XXBTZUSD", side |-> "buy", left |-> 50,
      price |-> 20],
     [currency_pair |-> "XETHZUSD", side |-> "sell", left |-> 20,
      price |-> 250]}

\* the assets of a listed pair, by id or altname
ListedPair(name) ==
    CHOOSE p \in KrakenListing : p.id = name \/ p.altname = name

\* what the exchange holds of an asset for one resting order, in hundredths
HeldFor(order, asset) ==
    LET p == ListedPair(order.pair)
        left == order.vol - order.vol_exec
    IN  IF order.type = "buy" /\ p.quote = asset THEN left * order.price
        ELSE IF order.type = "sell" /\ p.base = asset THEN left * 10
        ELSE 0

RECURSIVE Held(_, _)
Held(orders, asset) ==
    IF orders = <<>> THEN 0
    ELSE HeldFor(Head(orders), asset) + Held(Tail(orders), asset)

\* Kraken's OpenOrders: the resting orders are backed by the account's funds
KrakenOpenOrders(totals) ==
    {s \in SeqsUpTo(RestingOrders, MaxOpen) :
        /\ NoRepeat(s)
        /\ \A a \in Assets : Held(s, a) <= totals[a]}

GateOpenOrders == {s \in SeqsUpTo(GateResting, MaxOpen) : NoRepeat(s)}

\* ticker snapshots, in tenths
Tickers ==
    {[ask |-> 201, bid |-> 200, high |-> 220, low |-> 180, vwap |-> 200],
     [ask |-> 41, bid |-> 40, high |-> 50, low |-> 30, vwap |-> 40]}

-----------------------------------------------------------------------------
(* The configuration file *)

MarketXBT ==
    [pair |-> "XBTUSD",
     min  |-> [high |-> 100],
     sell |-> [order_count |-> 2, vol_percent |-> 50, pcnt_bump_a |-> 1,
               pcnt_bump_c |-> 1, rebuy_bump_percent |-> 5],
     buy  |-> [order_count |-> 2, vol_percent |-> 60, amount |-> 3000,
               pcnt_bump_a |-> 1, pcnt_bump_c |-> 1,
               resell_bump_percent |-> 5]]

MarketETH ==
    [pair |-> "XETHZUSD",
     min  |-> EmptyMap,
     sell |-> [order_count |-> 1, vol_percent |-> 100, pcnt_bump_a |-> 2,
               pcnt_bump_c |-> 0, rebuy_bump_percent |-> 10],
     buy  |-> [order_count |-> 3, vol_percent |-> 60, amount |-> 3000,
               pcnt_bump_a |-> 20, pcnt_bump_c |-> 0,
               resell_bump_percent |-> 10]]

MarketUnknown ==
    [pair |-> "NOPE",
     min  |-> EmptyMap,
     sell |-> [order_count |-> 1, vol_percent |-> 50, pcnt_bump_a |-> 1,
               pcnt_bump_c |-> 1, rebuy_bump_percent |-> 5],
     buy  |-> [order_count |-> 0, vol_percent |-> 50, amount |-> 1000,
               pcnt_bump_a |-> 1, pcnt_bump_c |-> 1,
               resell_bump_percent |-> 5]]

MarketTemplates == {MarketXBT, MarketETH, MarketUnknown}

Configs == SeqsUpTo(MarketTemplates, MaxMarkets)

-----------------------------------------------------------------------------
(* Asset pair registry *)

\* from_kraken with the two precisions taken from each other's field
FromKraken_SwappedDecimals(pair_id, pair) ==
    [exchange |-> "Kraken", id |-> pair_id, base |-> pair.base,
     quote |-> pair.quote, dp_base |-> pair.pair_decimals,
     dp_quote |-> pair.lot_decimals]

FromKraken(pair_id, pair) ==
    [exchange |-> "Kraken", id |-> pair_id, base |-> pair.base,
     quote |-> pair.quote, dp_base |-> pair.lot_decimals,
     dp_quote |-> pair.pair_decimals]

FromGateio(pair) ==
    [exchange |-> "gate.io", id |-> pair.id, base |-> pair.base,
     quote |-> pair.quote, dp_base |-> pair.amount_precision,
     dp_quote |-> pair.precision]

\* the alias entry built as a pair of its own, named by the altname
KrakenAssetPairs_AliasId(listing) ==
    [k \in {p.id : p \in listing} \cup {p.altname : p \in listing} |->
        IF \E p \in listing : p.id = k
        THEN LET p == CHOOSE q \in listing : q.id = k IN FromKraken(p.id, p)
        ELSE LET p == CHOOSE q \in listing : q.altname = k
             IN  FromKraken(p.altname, p)]

\* KrakenAPI.get_asset_pairs and Bot.get_asset_pairs: the id and, when it
\* differs, the altname are both keys of the same pair
KrakenAssetPairs(listing) ==
    [k \in {p.id : p \in listing} \cup {p.altname : p \in listing} |->
        IF \E p \in listing : p.id = k
        THEN LET p == CHOOSE q \in listing : q.id = k IN FromKraken(p.id, p)
        ELSE LET p == CHOOSE q \in listing : q.altname = k
             IN  FromKraken(p.id, p)]

GateAssetPairs(listing) ==
    [k \in {p.id : p \in listing} |->
        FromGateio(CHOOSE q \in listing : q.id = k)]

\* real_pair raises KeyError on Kraken for a name that is no key
KnownPair(ad, pairs, name) == IsKraken(ad) => name \in DOMAIN pairs

RealPair(ad, pairs, name) == IF IsKraken(ad) THEN pairs[name].id ELSE name

-----------------------------------------------------------------------------
(* Balance ledger *)

\* a refresh that keeps nothing spendable
KrakenLedger_NoUnencumbered(reply) ==
    [a \in DOMAIN reply |-> [total |-> reply[a], unencumbered |-> 0]]

KrakenLedger(reply) ==
    [a \in DOMAIN reply |-> [total |-> reply[a], unencumbered |-> reply[a]]]

GateLedger(reply) ==
    [a \in DOMAIN reply |->
        [total |-> reply[a].available,
         unencumbered |-> reply[a].available - reply[a].locked]]

\* a buy order encumbered by its volume alone, the price forgotten
EncumberBuy_NoPrice(bal, asset_quote, vol, price) ==
    [bal EXCEPT ![asset_quote].unencumbered = @ - vol * 10]

\* the buy branch of the enumeration: amt_quote = vol * price
EncumberBuy(bal, asset_quote, vol, price) ==
    [bal EXCEPT ![asset_quote].unencumbered = @ - vol * price]

\* the sell branch of the enumeration: vol of the base asset
EncumberSell(bal, asset_base, vol) ==
    [bal EXCEPT ![asset_base].unencumbered = @ - vol * 10]

\* one iteration of the enumeration can raise (KeyError, unknown type)
CanEncumber(bal, pairs, order) ==
    /\ order.pair \in DOMAIN pairs
    /\ order.type \in {"buy", "sell"}
    /\ order.type = "buy" => pairs[order.pair].quote \in DOMAIN bal
    /\ order.type = "sell" => pairs[order.pair].base \in DOMAIN bal

EncumberOne(bal, pairs, order) ==
    LET vol == order.vol - order.vol_exec
        pair == pairs[order.pair].id
    IN  IF order.type = "buy"
        THEN EncumberBuy(bal, pairs[pair].quote, vol, order.price)
        ELSE EncumberSell(bal, pairs[pair].base, vol)

\* the loop over the reply: stops at the first order that raises
RECURSIVE EncumberAll(_, _, _)
EncumberAll(bal, pairs, orders) ==
    IF orders = <<>> THEN [balances |-> bal, raised |-> FALSE]
    ELSE IF ~CanEncumber(bal, pairs, Head(orders))
         THEN [balances |-> bal, raised |-> TRUE]
         ELSE EncumberAll(EncumberOne(bal, pairs, Head(orders)), pairs,
                          Tail(orders))

-----------------------------------------------------------------------------
(* Ladder pricing and sizing *)

\* math.sqrt(n) in thousandths
SqrtMilli ==
    [n \in 1..4 |->
        CHOOSE r \in 0..(1000 * n) :
            r * r <= n * 1000000 /\ (r + 1) * (r + 1) > n * 1000000]

\* vol_total = sum(math.sqrt(i) for i in range(1, order_count + 1))
RECURSIVE VolTotal(_)
VolTotal(count) ==
    IF count = 0 THEN 0 ELSE SqrtMilli[count] + VolTotal(count - 1)

\* the minimum-ticker-field guard of tick_market / tick
BelowMin(market, ticker) ==
    \E k \in DOMAIN market.min : ticker[k] < market.min[k]

\* base_price of the sell ladder
SellBasePrice(ad, ticker) ==
    IF ad = "Bot"
    THEN Max2(ticker.ask, Max2(ticker.vwap, ticker.high))
    ELSE ticker.high

\* base_price of the buy ladder
BuyBasePrice(ad, ticker) ==
    IF ad = "Bot"
    THEN Min2(ticker.bid, Min2(ticker.vwap, ticker.low))
    ELSE ticker.low

\* the bump with the sign of its quadratic term wrong
BumpPercent_Falling(side, n) ==
    side.pcnt_bump_c - side.pcnt_bump_a * n * n

\* pcnt_bump = pcnt_bump_a * n**2 + pcnt_bump_c
BumpPercent(side, n) == side.pcnt_bump_a * n * n + side.pcnt_bump_c

\* the sell ladder without its balance check
SellBalanceTooLow_Never(bal) == FALSE

\* the sell ladder raises below 0.001 of the base asset (bal in hundredths)
SellBalanceTooLow(bal) == bal * 10 < 1

\* vol_sell of rung n: round(bal / vol_total * vol_p / 100 * sqrt(n), dp)
SellVolume(market, ap, bal, n) ==
    RoundDp(bal * market.sell.vol_percent * SqrtMilli[n],
            1000 * VolTotal(market.sell.order_count), ap.dp_base)

SellPrice(ad, market, ap, ticker, n) ==
    RoundDp(SellBasePrice(ad, ticker) * (100 + BumpPercent(market.sell, n)),
            100, ap.dp_quote)

\* the closing buy of a sell rung
RebuyPrice(market, ap, p_sell) ==
    RoundDp(p_sell * (100 - market.sell.rebuy_bump_percent), 100,
            ap.dp_quote)

SellOrder(ad, market, ap, ticker, bal, n) ==
    LET p_sell == SellPrice(ad, market, ap, ticker, n)
    IN  [ordertype |-> "limit", side |-> "sell", tif |-> "GTD",
         price |-> p_sell,
         volume |-> SellVolume(market, ap, bal, n),
         close |-> [side |-> "buy",
                    price |-> RebuyPrice(market, ap, p_sell)]]

\* the rungs appended in descending n
SellLadder_Reversed(ad, market, ap, ticker, bal) ==
    [n \in 1..market.sell.order_count |->
        SellOrder(ad, market, ap, ticker, bal,
                  market.sell.order_count + 1 - n)]

\* for n in range(1, sell_order_count + 1): orders.append(order)
SellLadder(ad, market, ap, ticker, bal) ==
    [n \in 1..market.sell.order_count |->
        SellOrder(ad, market, ap, ticker, bal, n)]

\* Bot.tick_buy_batch raises when the fixed amount exceeds the balance
BuyAmountTooHigh(ad, market, bal) == ad = "Bot" /\ market.buy.amount > bal

\* vol_buy of rung n. Bot: a fixed amount of quote, converted at the bid;
\* API, KrakenAPI: vol_percent of the unencumbered quote, converted at the bid
BuyVolume(ad, market, ap, ticker, bal, n) ==
    IF ad = "Bot"
    THEN RoundDp(market.buy.amount * SqrtMilli[n],
                 ticker.bid * VolTotal(market.buy.order_count), ap.dp_base)
    ELSE RoundDp(bal * market.buy.vol_percent * SqrtMilli[n],
                 ticker.bid * 100 * VolTotal(market.buy.order_count),
                 ap.dp_base)

BuyPrice(ad, market, ap, ticker, n) ==
    RoundDp(BuyBasePrice(ad, ticker) * (100 - BumpPercent(market.buy, n)),
            100, ap.dp_quote)

\* the closing sell of a buy rung
ResellPrice(market, ap, p_buy) ==
    RoundDp(p_buy * (100 + market.buy.resell_bump_percent), 100,
            ap.dp_quote)

BuyOrder(ad, market, ap, ticker, bal, n) ==
    LET p_buy == BuyPrice(ad, market, ap, ticker, n)
    IN  [ordertype |-> "limit", side |-> "buy", tif |-> "GTD",
         price |-> p_buy,
         volume |-> BuyVolume(ad, market, ap, ticker, bal, n),
         close |-> [side |-> "sell",
                    price |-> ResellPrice(market, ap, p_buy)]]

\* API.tick_buy_batch skips a rung whose price is <= 0 (gate.io inherits
\* it); KrakenAPI and Bot override the method without that guard
SkipsRung(ad, order) == ad = "GateIOAPI" /\ order.price <= 0

RECURSIVE BuyRungs(_, _, _, _, _, _)
BuyRungs(ad, market, ap, ticker, bal, n) ==
    IF n > market.buy.order_count THEN <<>>
    ELSE LET order == BuyOrder(ad, market, ap, ticker, bal, n)
             rest == BuyRungs(ad, market, ap, ticker, bal, n + 1)
         IN  IF SkipsRung(ad, order) THEN rest ELSE <<order>> \o rest

BuyLadder(ad, market, ap, ticker, bal) ==
    BuyRungs(ad, market, ap, ticker, bal, 1)

\* print_trade_summary divides by gross_profit, close_cost and open_cost:
\* ZeroDivisionError when one of them is 0
SummaryRaises(order) ==
    \/ order.volume * (order.close.price - order.price) = 0
    \/ order.volume * order.close.price = 0
    \/ order.volume * order.price = 0

-----------------------------------------------------------------------------
(* One market of one cycle: tick_market (API) / tick (Bot) *)

\* what the exchange does to the requests of one market
Faults == {"none", "ticker", "place_sell", "place_buy"}

NoTicker == [ask |-> 0, bid |-> 0, high |-> 0, low |-> 0, vwap |-> 0]

Raised(at, calls) == [result |-> "raised", at |-> at, calls |-> calls]

\* the module constant VALIDATE of bot.py and of krakenapi.py
Validate(ad) == IF ad = "Bot" THEN "false" ELSE "true"

\* what place_orders does to the orders it was given: Bot and KrakenAPI
\* write the pair and the validate flag into the only order of a batch of
\* one before the AddOrder query (a longer batch goes into a new request);
\* GateIOAPI builds new objects with to_gateio
AfterPlace(ad, pair, orders) ==
    IF IsKraken(ad) /\ Len(orders) = 1
    THEN <<orders[1] @@ [pair |-> pair, validate |-> Validate(ad)]>>
    ELSE orders

\* sent: the requests GateIOAPI.place_orders made for the call (two per
\* order: the opening order, then its closing order); a call that raises
\* raised in the last of them
\* after: the orders as place_orders leaves them
PlaceCall(ad, pair, side, orders, ok) ==
    [pair |-> pair, side |-> side, orders |-> orders, ok |-> ok,
     sent |-> IF ok \/ orders = <<>> THEN 2 * Len(orders) ELSE 1,
     after |-> AfterPlace(ad, pair, orders)]

\* tick_sell_batch: the calls of place_orders it makes and whether it raises
TickSellBatch(ad, market, pairs, bal, ticker, fault) ==
    IF market.sell.order_count = 0 THEN [raised |-> FALSE, calls |-> <<>>]
    ELSE
    LET pair == RealPair(ad, pairs, market.pair)
        ap == pairs[pair]
        bal_base == bal[ap.base].unencumbered
        orders == SellLadder(ad, market, ap, ticker, bal_base)
    IN  IF ap.base \notin DOMAIN bal \/ SellBalanceTooLow(bal_base)
        THEN [raised |-> TRUE, calls |-> <<>>]
        ELSE IF \E i \in DOMAIN orders : SummaryRaises(orders[i])
        THEN [raised |-> TRUE, calls |-> <<>>]
        ELSE [raised |-> fault = "place_sell",
              calls |-> <<PlaceCall(ad, pair, "sell", orders,
                                        fault # "place_sell")>>]

\* tick_buy_batch: the calls of place_orders it makes and whether it raises
TickBuyBatch(ad, market, pairs, bal, ticker, fault) ==
    IF market.buy.order_count = 0 THEN [raised |-> FALSE, calls |-> <<>>]
    ELSE
    LET pair == RealPair(ad, pairs, market.pair)
        ap == pairs[pair]
        bal_quote == bal[ap.quote].unencumbered
        orders == BuyLadder(ad, market, ap, ticker, bal_quote)
    IN  IF \/ ap.quote \notin DOMAIN bal
           \/ ticker.bid = 0
           \/ BuyAmountTooHigh(ad, market, bal_quote)
        THEN [raised |-> TRUE, calls |-> <<>>]
        ELSE IF \E i \in DOMAIN orders : SummaryRaises(orders[i])
        THEN [raised |-> TRUE, calls |-> <<>>]
        ELSE [raised |-> fault = "place_buy",
              calls |-> <<PlaceCall(ad, pair, "buy", orders,
                                        fault # "place_buy")>>]

\* the buy side run although the sell side raised
SellThenBuy_BuyAnyway(ad, market, pairs, bal, ticker, fault) ==
    LET sold == TickSellBatch(ad, market, pairs, bal, ticker, fault)
        bought == TickBuyBatch(ad, market, pairs, bal, ticker, fault)
    IN  IF sold.raised THEN Raised("sell", sold.calls \o bought.calls)
        ELSE IF bought.raised THEN Raised("buy", sold.calls \o bought.calls)
        ELSE [result |-> "done", at |-> "end",
              calls |-> sold.calls \o bought.calls]

\* the sell side runs first; the buy side runs when the sell side returned
SellThenBuy(ad, market, pairs, bal, ticker, fault) ==
    LET sold == TickSellBatch(ad, market, pairs, bal, ticker, fault)
        bought == TickBuyBatch(ad, market, pairs, bal, ticker, fault)
    IN  IF sold.raised THEN Raised("sell", sold.calls)
        ELSE IF bought.raised THEN Raised("buy", sold.calls \o bought.calls)
        ELSE [result |-> "done", at |-> "end",
              calls |-> sold.calls \o bought.calls]

\* the ladders computed without looking at the minimum ticker fields
GuardThenLadders_NoGuard(ad, market, pairs, bal, ticker, fault) ==
    SellThenBuy(ad, market, pairs, bal, ticker, fault)

\* the guard of the minimum ticker fields: return 0 before either side
GuardThenLadders(ad, market, pairs, bal, ticker, fault) ==
    IF BelowMin(market, ticker)
    THEN [result |-> "guard", at |-> "min", calls |-> <<>>]
    ELSE SellThenBuy(ad, market, pairs, bal, ticker, fault)

\* the ticker is fetched (and printed) for the resolved pair
TickerFetched(ad, market, pairs, fault) ==
    /\ KnownPair(ad, pairs, market.pair)
    /\ RealPair(ad, pairs, market.pair) \in DOMAIN pairs
    /\ fault # "ticker"

TickMarket(ad, market, pairs, bal, ticker, fault) ==
    IF ~KnownPair(ad, pairs, market.pair) THEN Raised("real_pair", <<>>)
    ELSE IF ~TickerFetched(ad, market, pairs, fault)
    THEN Raised("get_ticker", <<>>)
    ELSE GuardThenLadders(ad, market, pairs, bal, ticker, fault)

-----------------------------------------------------------------------------
(* gate.io: the ids of the opening orders *)

RECURSIVE MaxOf(_)
MaxOf(S) ==
    IF S = {} THEN 0
    ELSE LET x == CHOOSE y \in S : TRUE IN Max2(x, MaxOf(S \ {x}))

RecordedIds(ids) == UNION {Range(ids[k]) : k \in DOMAIN ids}

\* the requests of a failing call of GateIOAPI.place_orders: the one that
\* raises is any of the two requests of any order
FailPoints(ad, calls) ==
    IF ad = "GateIOAPI" /\ calls # <<>> /\ ~calls[Len(calls)].ok
    THEN 1..Max2(1, 2 * Len(calls[Len(calls)].orders))
    ELSE {1}

FailAt(calls, fp) ==
    [i \in DOMAIN calls |->
        IF calls[i].ok \/ calls[i].orders = <<>> THEN calls[i]
        ELSE [calls[i] EXCEPT !.sent = fp]]

\* the opening orders a call created: every order, or those before the
\* request that raised (the id is appended as soon as create_order returns)
Made(call) == IF call.ok THEN Len(call.orders) ELSE call.sent \div 2

\* place_orders that records the ids when every order was created
GatePlaceOrders_WhenDone(ids, call) ==
    LET old == IF call.pair \in DOMAIN ids THEN ids[call.pair] ELSE <<>>
        first == MaxOf(RecordedIds(ids)) + 1
        new == IF call.ok THEN [i \in 1..Len(call.orders) |-> first + i - 1]
               ELSE <<>>
    IN  [k \in DOMAIN ids \cup {call.pair} |->
            IF k = call.pair THEN old \o new ELSE ids[k]]

\* place_orders: every created opening order's id is appended to the pair's
\* list; the list exists from the first call on
GatePlaceOrders(ids, call) ==
    LET old == IF call.pair \in DOMAIN ids THEN ids[call.pair] ELSE <<>>
        first == MaxOf(RecordedIds(ids)) + 1
        new == [i \in 1..Made(call) |-> first + i - 1]
    IN  [k \in DOMAIN ids \cup {call.pair} |->
            IF k = call.pair THEN old \o new ELSE ids[k]]

RECURSIVE GatePlaceAll(_, _)
GatePlaceAll(ids, calls) ==
    IF calls = <<>> THEN ids
    ELSE GatePlaceAll(GatePlaceOrders(ids, Head(calls)), Tail(calls))

\* cancel_orders that sends the cancellations and keeps the lists
CancelFirst_KeepsIds(ids, mkts, n) == ids

\* cancel_orders: the lists of the first n configured markets are emptied
RECURSIVE CancelFirst(_, _, _)
CancelFirst(ids, mkts, n) ==
    IF n = 0 THEN ids
    ELSE LET before == CancelFirst(ids, mkts, n - 1)
             pair == mkts[n].pair
         IN  IF pair \in DOMAIN before
             THEN [before EXCEPT ![pair] = <<>>]
             ELSE before

-----------------------------------------------------------------------------
(* Requests to the exchange and the delays between them *)

\* the events that are no request: the inter-request delay
\* (time.sleep(inter_apireq_sleep_seconds)) and the sleep that ends a cycle
IsRequest(event) == event \notin {"delay", "sleep"}

\* Bot._query / KrakenAPI._query: the request, and the delay when the reply
\* holds a result; an error reply raises before the delay
KrakenQuery(query, ok) == IF ok THEN <<query, "delay">> ELSE <<query>>

\* a request of GateIOAPI outside place_orders: no delay follows it
GateRequest(request) == <<request>>

Query(ad, query, request, ok) ==
    IF IsKraken(ad) THEN KrakenQuery(query, ok) ELSE GateRequest(request)

\* GateIOAPI.get_open_orders: one list_orders per configured market
GateListOrders(mkts) == [i \in DOMAIN mkts |-> "list_orders"]

\* GateIOAPI.cancel_orders: one cancel_batch_orders per market among the
\* first n whose list of ids is not empty when the loop reaches it
RECURSIVE CancelRequests(_, _, _)
CancelRequests(ids, mkts, n) ==
    IF n = 0 THEN <<>>
    ELSE LET before == CancelFirst(ids, mkts, n - 1)
             pair == mkts[n].pair
         IN  CancelRequests(ids, mkts, n - 1)
                \o (IF pair \in DOMAIN before /\ before[pair] # <<>>
                    THEN <<"cancel_batch_orders">> ELSE <<>>)

\* GateIOAPI.place_orders: per order the opening order, the delay, the
\* closing order, the delay; a request that raises ends the call. The
\* first n requests, the last of them without its delay when it raised
RECURSIVE GateCreateOrders(_, _)
GateCreateOrders(n, ok) ==
    IF n = 0 THEN <<>>
    ELSE GateCreateOrders(n - 1, TRUE)
            \o <<IF n % 2 = 1 THEN "create_order"
                 ELSE "create_spot_price_triggered_order">>
            \o (IF ok THEN <<"delay">> ELSE <<>>)

\* place_orders of Bot and KrakenAPI: AddOrder for one order, AddOrderBatch
\* for the others, each one query; their tick_sell_batch sleeps once more
\* when place_orders returns
PlaceWire(ad, call) ==
    IF IsKraken(ad)
    THEN KrakenQuery(IF Len(call.orders) = 1 THEN "AddOrder"
                     ELSE "AddOrderBatch", call.ok)
            \o (IF call.side = "sell" /\ call.ok THEN <<"delay">> ELSE <<>>)
    ELSE GateCreateOrders(call.sent, call.ok)

RECURSIVE PlaceAllWire(_, _)
PlaceAllWire(ad, calls) ==
    IF calls = <<>> THEN <<>>
    ELSE PlaceWire(ad, Head(calls)) \o PlaceAllWire(ad, Tail(calls))

\* the requests and delays of one market: none when real_pair raises, the
\* ticker request, then the calls of place_orders
TickWire(ad, r) ==
    IF r.at = "real_pair" THEN <<>>
    ELSE Query(ad, "Ticker", "list_tickers", r.at # "get_ticker")
            \o PlaceAllWire(ad, r.calls)

\* the wire after a step: the last event before the step, then its events
Sent(old, events) ==
    IF events = <<>> THEN old
    ELSE (IF old = <<>> THEN <<>> ELSE <<old[Len(old)]>>) \o events

-----------------------------------------------------------------------------
(* The cycle *)

\* the loop with connect and get_asset_pairs in the other order
BotLoopNext_Swapped(step, n) ==
    CASE step = "load_cfg" -> "get_asset_pairs"
      [] step = "get_asset_pairs" -> "connect"
      [] step = "connect" -> "get_balances"
      [] step = "get_balances" -> "get_open_orders"
      [] step = "get_open_orders" ->
            IF n = 0 THEN "get_balances_after" ELSE "tick"
      [] step = "tick" -> "get_balances_after"
      [] step = "get_balances_after" -> "get_open_orders_after"
      [] step = "get_open_orders_after" -> "print_all_balances"
      [] step = "print_all_balances" -> "sleep"
      [] step = "sleep" -> "load_cfg"

\* the loop without the enumeration of the open orders before the markets
BotLoopNext_NoEnum(step, n) ==
    CASE step = "load_cfg" -> "connect"
      [] step = "connect" -> "get_asset_pairs"
      [] step = "get_asset_pairs" -> "get_balances"
      [] step = "get_balances" ->
            IF n = 0 THEN "get_balances_after" ELSE "tick"
      [] step = "get_open_orders" ->
            IF n = 0 THEN "get_balances_after" ELSE "tick"
      [] step = "tick" -> "get_balances_after"
      [] step = "get_balances_after" -> "get_open_orders_after"
      [] step = "get_open_orders_after" -> "print_all_balances"
      [] step = "print_all_balances" -> "sleep"
      [] step = "sleep" -> "load_cfg"

\* Bot.loop: the statement that follows a statement of the loop body
\* (n is the number of configured markets)
BotLoopNext(step, n) ==
    CASE step = "load_cfg" -> "connect"
      [] step = "connect" -> "get_asset_pairs"
      [] step = "get_asset_pairs" -> "get_balances"
      [] step = "get_balances" -> "get_open_orders"
      [] step = "get_open_orders" ->
            IF n = 0 THEN "get_balances_after" ELSE "tick"
      [] step = "tick" -> "get_balances_after"
      [] step = "get_balances_after" -> "get_open_orders_after"
      [] step = "get_open_orders_after" -> "print_all_balances"
      [] step = "print_all_balances" -> "sleep"
      [] step = "sleep" -> "load_cfg"

\* Bot.loop has no handler around the global steps: an exception leaves
\* the while loop
BotOnRaise == "terminated"

\* the cycle of the scheduler that drives an API adapter: the same order,
\* with the explicit cancellation gate.io needs before the new ladders
ApiLoopNext(ad, step, n) ==
    CASE step = "get_open_orders" /\ ad = "GateIOAPI" -> "cancel_orders"
      [] step = "cancel_orders" ->
            IF n = 0 THEN "get_balances_after" ELSE "tick"
      [] OTHER -> BotLoopNext(step, n)

\* a failed global step aborts the cycle; the next cycle is scheduled
ApiOnRaise == "sleep"

LoopNext(ad, step, n) ==
    IF ad = "Bot" THEN BotLoopNext(step, n) ELSE ApiLoopNext(ad, step, n)

OnRaise(ad) == IF ad = "Bot" THEN BotOnRaise ELSE ApiOnRaise

\* the name of the operation a position of the loop executes
StepName(p) ==
    CASE p = "get_balances_after" -> "get_balances"
      [] p = "get_open_orders_after" -> "get_open_orders"
      [] OTHER -> p

\* the loop over the markets without its exception handler
AfterMarket_NoCatch(ad, m, mkts, result) ==
    IF result = "raised" THEN [pc |-> OnRaise(ad), mi |-> 1]
    ELSE IF m < Len(mkts) THEN [pc |-> "tick", mi |-> m + 1]
    ELSE [pc |-> LoopNext(ad, "tick", Len(mkts)), mi |-> 1]

\* a market that raised is tried again
AfterMarket_Retry(ad, m, mkts, result) ==
    IF result = "raised" THEN [pc |-> "tick", mi |-> m]
    ELSE IF m < Len(mkts) THEN [pc |-> "tick", mi |-> m + 1]
    ELSE [pc |-> LoopNext(ad, "tick", Len(mkts)), mi |-> 1]

\* for market in markets: the loop goes on to the next market, whatever
\* happened to this one (try / except Exception around the body)
AfterMarket(ad, m, mkts, result) ==
    IF m < Len(mkts) THEN [pc |-> "tick", mi |-> m + 1]
    ELSE [pc |-> LoopNext(ad, "tick", Len(mkts)), mi |-> 1]

Init ==
    /\ adapter \in Adapters
    /\ configfile \in Configs
    /\ markets = <<>>
    /\ connected = FALSE
    /\ asset_pairs = EmptyMap
    /\ balances = EmptyMap
    /\ open_order_ids = EmptyMap
    /\ pc = "load_cfg"
    /\ mi = 1
    /\ steps = <<>>
    /\ log = <<>>
    /\ failed = "none"
    /\ bal_reply = EmptyMap
    /\ oo_reply = <<>>
    /\ enum_count = 0
    /\ refreshed = FALSE
    /\ wire = <<>>
    /\ obj = NoObject
    /\ clock = NoClock

\* a global step ends: the next statement, or the exception's way out
StepEnds(ok) ==
    /\ steps' = Append(steps, StepName(pc))
    /\ pc' = IF ok THEN LoopNext(adapter, pc, Len(markets))
             ELSE OnRaise(adapter)
    /\ failed' = IF ok THEN failed ELSE StepName(pc)

LoadCfg ==
    /\ pc = "load_cfg"
    /\ \E ok \in BOOLEAN :
        /\ markets' = IF ok THEN configfile ELSE markets
        /\ steps' = <<"load_cfg">>
        /\ pc' = IF ok THEN LoopNext(adapter, pc, Len(markets'))
                 ELSE OnRaise(adapter)
        /\ failed' = IF ok THEN "none" ELSE "load_cfg"
    /\ log' = <<>>
    /\ UNCHANGED <<adapter, configfile, connected, asset_pairs, balances,
                   open_order_ids, mi, bal_reply, oo_reply, enum_count,
                   refreshed, wire>>
    /\ UNCHANGED <<obj, clock>>

Connect ==
    /\ pc = "connect"
    /\ \E ok \in BOOLEAN :
        /\ connected' = (connected \/ ok)
        /\ StepEnds(ok)
    /\ UNCHANGED <<adapter, configfile, markets, asset_pairs, balances,
                   open_order_ids, mi, log, bal_reply, oo_reply, enum_count,
                   refreshed, wire>>
    /\ UNCHANGED <<obj, clock>>

\* KrakenAPI empties the registry before the query, Bot and GateIOAPI
\* assign it after the query returned
GetAssetPairs ==
    /\ pc = "get_asset_pairs"
    /\ \E ok \in BOOLEAN :
        /\ asset_pairs' =
              IF ok /\ connected
              THEN IF IsKraken(adapter) THEN KrakenAssetPairs(KrakenListing)
                   ELSE GateAssetPairs(GateListing)
              ELSE IF adapter = "KrakenAPI" /\ connected THEN EmptyMap
              ELSE asset_pairs
        /\ wire' = IF connected
                   THEN Sent(wire, Query(adapter, "AssetPairs",
                                         "list_currency_pairs", ok))
                   ELSE wire
        /\ StepEnds(ok /\ connected)
    /\ UNCHANGED <<adapter, configfile, markets, connected, balances,
                   open_order_ids, mi, log, bal_reply, oo_reply, enum_count,
                   refreshed>>
    /\ UNCHANGED <<obj, clock>>

\* the replies the balance query can give
BalanceReplies(ad) == IF IsKraken(ad) THEN KrakenBalances ELSE GateAccounts

Ledger(ad, reply) ==
    IF IsKraken(ad) THEN KrakenLedger(reply) ELSE GateLedger(reply)

GetBalances ==
    /\ pc \in {"get_balances", "get_balances_after"}
    /\ \/ \E reply \in BalanceReplies(adapter) :
            /\ connected
            /\ balances' = Ledger(adapter, reply)
            /\ bal_reply' = reply
            /\ oo_reply' = <<>>
            /\ enum_count' = 0
            /\ refreshed' = TRUE
            /\ wire' = Sent(wire, Query(adapter, "Balance",
                                        "list_spot_accounts", TRUE))
            /\ StepEnds(TRUE)
       \/ /\ UNCHANGED <<balances, bal_reply, oo_reply, enum_count,
                         refreshed>>
          /\ wire' = IF connected
                     THEN Sent(wire, Query(adapter, "Balance",
                                           "list_spot_accounts", FALSE))
                     ELSE wire
          /\ StepEnds(FALSE)
    /\ log' = <<>>
    /\ UNCHANGED <<adapter, configfile, markets, connected, asset_pairs,
                   open_order_ids, mi>>
    /\ UNCHANGED <<obj, clock>>

\* Bot and KrakenAPI encumber the ledger order by order; GateIOAPI only
\* lists the orders (its two subtractions are commented out)
\* an enumeration that takes one hundredth per resting order out of the
\* unencumbered balance of every asset
GateEnumerate_Encumbers(bal, reply) ==
    [a \in DOMAIN bal |->
        [bal[a] EXCEPT !.unencumbered = @ - Len(reply)]]

\* GateIOAPI.get_open_orders: the two statements that would encumber the
\* ledger are comments; the orders are only logged
GateEnumerate(bal, reply) == bal

GetOpenOrders ==
    /\ pc \in {"get_open_orders", "get_open_orders_after"}
    /\ \/ /\ IsKraken(adapter)
          /\ \E reply \in KrakenOpenOrders(bal_reply) :
                LET r == EncumberAll(balances, asset_pairs, reply)
                IN  /\ balances' = r.balances
                    /\ oo_reply' = reply
                    /\ enum_count' = IF r.raised THEN enum_count
                                     ELSE enum_count + 1
                    /\ wire' = Sent(wire, KrakenQuery("OpenOrders", TRUE))
                    /\ StepEnds(~r.raised)
       \/ /\ ~IsKraken(adapter)
          /\ \E reply \in GateOpenOrders :
                LET known == \A i \in DOMAIN reply :
                                reply[i].currency_pair \in DOMAIN asset_pairs
                IN  /\ oo_reply' = reply
                    /\ enum_count' = IF known THEN enum_count + 1
                                     ELSE enum_count
                    /\ wire' = Sent(wire,
                                    IF known THEN GateListOrders(markets)
                                    ELSE GateRequest("list_orders"))
                    /\ balances' = GateEnumerate(balances, reply)
                    /\ StepEnds(known)
       \/ /\ UNCHANGED <<balances, oo_reply, enum_count>>
          /\ wire' = Sent(wire, Query(adapter, "OpenOrders", "list_orders",
                                      FALSE))
          /\ StepEnds(FALSE)
    /\ UNCHANGED <<adapter, configfile, markets, connected, asset_pairs,
                   open_order_ids, mi, log, bal_reply, refreshed>>
    /\ UNCHANGED <<obj, clock>>

\* GateIOAPI.cancel_orders: market by market; the batch cancellation of
\* market k can raise (k = 0: none does)
CancelOrders ==
    /\ pc = "cancel_orders"
    /\ \E k \in 0..Len(markets) :
        LET done == IF k = 0 THEN Len(markets) ELSE k - 1
            ids == CancelFirst(open_order_ids, markets, done)
        IN  /\ k > 0 =>
                /\ markets[k].pair \in DOMAIN ids
                /\ ids[markets[k].pair] # <<>>
            /\ open_order_ids' = ids
            /\ wire' = Sent(wire,
                            CancelRequests(open_order_ids, markets, done)
                                \o (IF k = 0 THEN <<>>
                                    ELSE GateRequest("cancel_batch_orders")))
            /\ StepEnds(k = 0)
    /\ UNCHANGED <<adapter, configfile, markets, connected, asset_pairs,
                   balances, mi, log, bal_reply, oo_reply, enum_count,
                   refreshed>>
    /\ UNCHANGED <<obj, clock>>

\* a market's processing that takes what it placed out of the ledger
TickLedger_Allocates(bal, calls) ==
    IF calls = <<>> THEN bal
    ELSE [a \in DOMAIN bal |-> [bal[a] EXCEPT !.unencumbered = 0]]

\* the ledger after a market's processing: tick, tick_market, the two
\* ladders, print_trade_summary and place_orders read self.balances and
\* never assign to it
TickLedger(bal, calls) == bal

\* one iteration of the loop over the markets
Tick ==
    /\ pc = "tick"
    /\ \E ticker \in Tickers, fault \in Faults :
      \E fp \in FailPoints(adapter,
                           TickMarket(adapter, markets[mi], asset_pairs,
                                      balances, ticker, fault).calls) :
        LET market == markets[mi]
            t == TickMarket(adapter, market, asset_pairs, balances, ticker,
                            fault)
            r == [t EXCEPT !.calls = FailAt(t.calls, fp)]
            seen == IF TickerFetched(adapter, market, asset_pairs, fault)
                    THEN ticker ELSE NoTicker
        IN  /\ log' = Append(log, [market |-> mi, ticker |-> seen,
                                   result |-> r.result, at |-> r.at,
                                   calls |-> r.calls,
                                   wire |-> TickWire(adapter, r)])
            /\ wire' = Sent(wire, TickWire(adapter, r))
            /\ balances' = TickLedger(balances, r.calls)
            /\ open_order_ids' =
                  IF adapter = "GateIOAPI"
                  THEN GatePlaceAll(open_order_ids, r.calls)
                  ELSE open_order_ids
            /\ pc' = AfterMarket(adapter, mi, markets, r.result).pc
            /\ mi' = AfterMarket(adapter, mi, markets, r.result).mi
    /\ steps' = Append(steps, "tick")
    /\ UNCHANGED <<adapter, configfile, markets, connected, asset_pairs,
                   failed, bal_reply, oo_reply, enum_count,
                   refreshed>>
    /\ UNCHANGED <<obj, clock>>

PrintAllBalances ==
    /\ pc = "print_all_balances"
    /\ StepEnds(TRUE)
    /\ UNCHANGED <<adapter, configfile, markets, connected, asset_pairs,
                   balances, open_order_ids, mi, log, bal_reply, oo_reply,
                   enum_count, refreshed, wire>>
    /\ UNCHANGED <<obj, clock>>

Sleep ==
    /\ pc = "sleep"
    /\ StepEnds(TRUE)
    /\ UNCHANGED <<adapter, configfile, markets, connected, asset_pairs,
                   balances, open_order_ids, mi, log, bal_reply, oo_reply,
                   enum_count, refreshed>>
    /\ wire' = <<"sleep">>
    /\ UNCHANGED <<obj, clock>>

Next ==
    \/ LoadCfg
    \/ Connect
    \/ GetAssetPairs
    \/ GetBalances
    \/ GetOpenOrders
    \/ CancelOrders
    \/ Tick
    \/ PrintAllBalances
    \/ Sleep

Spec == Init /\ [][Next]_vars

-----------------------------------------------------------------------------
(* Properties *)

Last(s) == s[Len(s)]

\* the entry the log gained in this step, when it gained one
Logged(old, new) == Len(new) = Len(old) + 1

\* C1: when a fetched ticker field named in market["min"] is below its
\* minimum, the market's processing makes no call of place_orders (neither
\* side) and leaves the ledger (and the recorded order ids) as they were.
C1_GuardSkipsMarket ==
    [][(pc = "tick" /\ Logged(log, log')) =>
         LET e == Last(log')
         IN  (e.ticker # NoTicker /\ BelowMin(markets[mi], e.ticker)) =>
                /\ e.calls = <<>>
                /\ e.result = "guard"
                /\ balances' = balances
                /\ open_order_ids' = open_order_ids]_vars

\* a market with ladders configured on both sides was skipped by the guard
C1_Witness ==
    \E i \in DOMAIN log :
        /\ log[i].result = "guard"
        /\ BelowMin(markets[log[i].market], log[i].ticker)
        /\ markets[log[i].market].sell.order_count > 0
        /\ markets[log[i].market].buy.order_count > 0
        /\ balances[asset_pairs[markets[log[i].market].pair].base]
              .unencumbered > 0

\* the funds of an asset the orders of one call of place_orders commit, in
\* hundredths: the volume of a sell, volume * price of a buy
RECURSIVE OrderFunds(_, _)
OrderFunds(orders, side) ==
    IF orders = <<>> THEN 0
    ELSE (IF side = "sell" THEN Head(orders).volume * 10
          ELSE Head(orders).volume * Head(orders).price)
         + OrderFunds(Tail(orders), side)

CallFunds(call, asset) ==
    LET ap == asset_pairs[call.pair]
    IN  IF call.side = "sell" /\ ap.base = asset
        THEN OrderFunds(call.orders, "sell")
        ELSE IF call.side = "buy" /\ ap.quote = asset
        THEN OrderFunds(call.orders, "buy")
        ELSE 0

RECURSIVE CallsFunds(_, _)
CallsFunds(calls, asset) ==
    IF calls = <<>> THEN 0
    ELSE CallFunds(Head(calls), asset) + CallsFunds(Tail(calls), asset)

\* the funds of an asset committed by the ladders of the cycle so far
RECURSIVE Committed(_, _)
Committed(entries, asset) ==
    IF entries = <<>> THEN 0
    ELSE CallsFunds(Head(entries).calls, asset)
         + Committed(Tail(entries), asset)

\* C2: within a cycle, for every asset, the funds committed by the ladders
\* computed so far plus the funds encumbered by resting orders never exceed
\* the asset's total balance.
C2_NoDoubleSpend ==
    \A a \in DOMAIN balances :
        Committed(log, a) > 0 =>
            Committed(log, a)
                + (balances[a].total - balances[a].unencumbered)
                    <= balances[a].total

\* C3: for every asset of the ledger, 0 <= unencumbered <= total.
C3_UnencumberedInRange ==
    \A a \in DOMAIN balances :
        /\ 0 <= balances[a].unencumbered
        /\ balances[a].unencumbered <= balances[a].total

\* C4: a market whose processing raises does not stop the loop over the
\* markets: the next configured market is processed next, and after the
\* last market the cycle goes on with its remaining steps.
C4_MarketFailureNotFatal ==
    [][(pc = "tick" /\ Logged(log, log') /\ Last(log').result = "raised") =>
         /\ failed' = failed
         /\ IF mi < Len(markets)
            THEN pc' = "tick" /\ mi' = mi + 1
            ELSE pc' = "get_balances_after"]_vars

\* a market raised and a later market of the same cycle placed its orders
C4_Witness ==
    \E i, j \in DOMAIN log :
        /\ i < j
        /\ log[i].result = "raised"
        /\ log[j].result = "done"
        /\ log[j].calls # <<>>

\* C5: a failing global step (load_cfg, connect, get_asset_pairs,
\* get_balances, get_open_orders) leaves the loop running.
C5_LoopSurvivesGlobalFailure ==
    failed \in {"load_cfg", "connect", "get_asset_pairs", "get_balances",
                "get_open_orders"} => pc # "terminated"

\* the steps of one cycle of Bot.loop over n markets, in program order
ExpectedCycle(n) ==
    <<"load_cfg", "connect", "get_asset_pairs", "get_balances",
      "get_open_orders">>
        \o [i \in 1..n |-> "tick"]
        \o <<"get_balances", "get_open_orders", "print_all_balances",
             "sleep">>

\* C6: the steps a cycle of Bot.loop has executed are always the first
\* steps of: load config, connect, asset pairs, balances, open orders, one
\* tick per market, balances, open orders, summary, sleep; the step about
\* to run is the next of that list, and a cycle starts only when the
\* previous one has run all of them, the sleep last.
C6_CycleOrder ==
    adapter = "Bot" =>
        LET exp == ExpectedCycle(Len(markets))
        IN  /\ Len(steps) <= Len(exp)
            /\ \A i \in DOMAIN steps : steps[i] = exp[i]
            /\ (pc = "load_cfg" /\ steps # <<>>) => steps = exp
            /\ pc \notin {"load_cfg", "terminated"} =>
                  /\ Len(steps) < Len(exp)
                  /\ StepName(pc) = exp[Len(steps) + 1]

\* Bot.loop is back at the top after a whole cycle over two markets
C6_Witness ==
    /\ adapter = "Bot"
    /\ pc = "load_cfg"
    /\ Len(markets) = 2
    /\ Len(steps) = 11
    /\ Last(steps) = "sleep"

\* C7: in Bot.loop the enumeration of the open orders runs at most once
\* after a balance refresh and exactly once before the next refresh, every
\* market is processed after it has completed, and it has then taken each
\* reported order from unencumbered once.
C7_EnumerationOncePerRefresh ==
    adapter = "Bot" =>
        /\ enum_count <= 1
        /\ pc = "tick" => enum_count = 1
        /\ (refreshed /\ pc \in {"get_balances", "get_balances_after"})
              => enum_count = 1
        /\ enum_count = 1 =>
              \A a \in DOMAIN balances :
                  balances[a].unencumbered
                      = balances[a].total - Held(oo_reply, a)

\* the second refresh of a cycle is about to run, after an enumeration that
\* found resting orders and after the markets were processed
C7_Witness ==
    /\ adapter = "Bot"
    /\ pc = "get_balances_after"
    /\ enum_count = 1
    /\ oo_reply # <<>>
    /\ log # <<>>

\* an enumeration of the open orders that completed in this step
Enumerated == enum_count' = enum_count + 1

\* C8: an enumeration by Bot or KrakenAPI takes from the unencumbered
\* balance of each asset exactly what the reported orders hold of it
\* (remaining volume * price of the quote asset for a buy, remaining volume
\* of the base asset for a sell), and changes no total and no other asset.
C8_EncumbranceAmounts ==
    [][(IsKraken(adapter) /\ Enumerated) =>
         /\ DOMAIN balances' = DOMAIN balances
         /\ \A a \in DOMAIN balances :
              /\ balances'[a].total = balances[a].total
              /\ balances'[a].unencumbered
                    = balances[a].unencumbered - Held(oo_reply', a)]_vars

\* a buy and a sell were enumerated: the buy holds 5.0 * 2.0 = 10.00 of
\* the quote asset, the sell 2.0 of the base asset
C8_Witness ==
    /\ IsKraken(adapter)
    /\ enum_count = 1
    /\ \E i, j \in DOMAIN oo_reply :
          /\ oo_reply[i].type = "buy"
          /\ oo_reply[j].type = "sell"
    /\ balances["ZUSD"].unencumbered = balances["ZUSD"].total - 1000
    /\ balances["XETH"].unencumbered = balances["XETH"].total - 200
    /\ balances["XXBT"].unencumbered = balances["XXBT"].total

\* the last step was a balance refresh that succeeded
AfterRefresh ==
    /\ steps # <<>>
    /\ Last(steps) = "get_balances"
    /\ DOMAIN balances = DOMAIN bal_reply
    /\ pc \in {"get_open_orders", "get_open_orders_after"}

\* the total the exchange supplied for an asset
Supplied(ad, a) ==
    IF IsKraken(ad) THEN bal_reply[a] ELSE bal_reply[a].available

\* C9: right after a balance refresh, for every asset the exchange
\* returned, total is the supplied total and unencumbered equals total,
\* whichever the adapter.
C9_RefreshResetsLedger ==
    AfterRefresh =>
        \A a \in DOMAIN bal_reply :
            /\ balances[a].total = Supplied(adapter, a)
            /\ balances[a].unencumbered = balances[a].total

\* C10: the markets are processed one at a time in configuration order,
\* each once: the k-th market processed in a cycle is the k-th configured
\* one, the market in progress is the one after those already processed,
\* and the loop is left when every market was processed once.
C10_MarketsInOrderOnce ==
    /\ Len(log) <= Len(markets)
    /\ \A i \in DOMAIN log : log[i].market = i
    /\ pc = "tick" => (mi = Len(log) + 1 /\ mi <= Len(markets))
    /\ pc \in {"get_balances_after"} => Len(log) = Len(markets)

\* both markets were processed, the first of them raised
C10_Witness ==
    /\ pc = "get_balances_after"
    /\ Len(log) = 2
    /\ log[1].result = "raised"
    /\ log[2].market = 2

\* the ladder a call of place_orders was handed comes from: the rungs
\* 1..order_count of the call's side, computed from the market, the ticker
\* and the unencumbered balance the ladder read
Rungs(ad, entry, call) ==
    LET market == markets[entry.market]
        ap == asset_pairs[call.pair]
    IN  IF call.side = "sell"
        THEN [n \in 1..market.sell.order_count |->
                SellOrder(ad, market, ap, entry.ticker,
                          balances[ap.base].unencumbered, n)]
        ELSE [n \in 1..market.buy.order_count |->
                BuyOrder(ad, market, ap, entry.ticker,
                         balances[ap.quote].unencumbered, n)]

\* the calls of place_orders of the cycle so far, each with its log entry
PlaceCalls ==
    {<<i, j>> \in (DOMAIN log) \X (1..2) : j \in DOMAIN log[i].calls}

Kept(ad, order) == ~SkipsRung(ad, order)

C12_NoNonPositiveBuyPrice ==
    \A c \in PlaceCalls :
        LET call == log[c[1]].calls[c[2]]
        IN  call.side = "buy" =>
                \A k \in DOMAIN call.orders : call.orders[k].price > 0

-----------------------------------------------------------------------------
(* The ladders as functions of their inputs: one market, one pair, one
   ledger and one ticker, drawn from wider sets than the cycle uses *)

\* the ladder parameters of a market's side (percentages)
LadderBumpsA == {-1, 0, 1, 20}

LadderBumpsC == {0, 1}

LadderCloseBumps == {-5, 0, 5}

LadderVolPercents == {50, 100}

\* unencumbered balances, in hundredths (gate.io's can be negative)
LadderBalances == {-300, 0, 108, 131, 1000, 5000}

LadderDecimals == {0, 1}

LadderMarket(count, a, c, close, vp) ==
    [pair |-> "XETHZUSD",
     min  |-> EmptyMap,
     sell |-> [order_count |-> count, vol_percent |-> vp, pcnt_bump_a |-> a,
               pcnt_bump_c |-> c, rebuy_bump_percent |-> close],
     buy  |-> [order_count |-> count, vol_percent |-> vp, amount |-> 1000,
               pcnt_bump_a |-> a, pcnt_bump_c |-> c,
               resell_bump_percent |-> close]]

\* the registry of the adapter for one listed pair of the given precisions
LadderPairs(ad, dp_base, dp_quote) ==
    IF IsKraken(ad)
    THEN KrakenAssetPairs({[id |-> "XETHZUSD", altname |-> "ETHUSD",
                            base |-> "XETH", quote |-> "ZUSD",
                            lot_decimals |-> dp_base,
                            pair_decimals |-> dp_quote]})
    ELSE GateAssetPairs({[id |-> "XETHZUSD", base |-> "XETH",
                          quote |-> "ZUSD", amount_precision |-> dp_base,
                          precision |-> dp_quote]})

LadderInit ==
    /\ adapter \in Adapters
    /\ \E count \in 1..MaxRungs, a \in LadderBumpsA, c \in LadderBumpsC,
          close \in LadderCloseBumps, vp \in LadderVolPercents :
            /\ markets = <<LadderMarket(count, a, c, close, vp)>>
            /\ configfile = markets
    /\ \E dp_base \in LadderDecimals, dp_quote \in LadderDecimals :
            asset_pairs = LadderPairs(adapter, dp_base, dp_quote)
    /\ \E bal \in LadderBalances :
            balances = [a \in {"XETH", "ZUSD"} |->
                            [total |-> bal, unencumbered |-> bal]]
    /\ connected = TRUE
    /\ open_order_ids = EmptyMap
    /\ pc = "ladder"
    /\ mi = 1
    /\ steps = <<>>
    /\ log = <<>>
    /\ failed = "none"
    /\ bal_reply = EmptyMap
    /\ oo_reply = <<>>
    /\ enum_count = 0
    /\ refreshed = TRUE
    /\ wire = <<>>
    /\ obj = NoObject
    /\ clock = NoClock

\* one side's ladder is computed for a ticker: what it handed to
\* place_orders, or that it raised
LadderStep(side, ticker, r) ==
    /\ pc = "ladder"
    /\ log' = <<[market |-> 1, ticker |-> ticker,
                 result |-> IF r.raised THEN "raised" ELSE "done",
                 at |-> side, calls |-> r.calls,
                 wire |-> PlaceAllWire(adapter, r.calls)]>>
    /\ pc' = "laddered"
    /\ balances' = TickLedger(balances, r.calls)
    /\ UNCHANGED <<adapter, configfile, markets, connected, asset_pairs,
                   open_order_ids, mi, steps, failed, bal_reply,
                   oo_reply, enum_count, refreshed, wire>>
    /\ UNCHANGED <<obj, clock>>

LadderSell ==
    \E ticker \in Tickers :
        LadderStep("sell", ticker,
                   TickSellBatch(adapter, markets[1], asset_pairs, balances,
                                 ticker, "none"))

LadderBuy ==
    \E ticker \in Tickers :
        LadderStep("buy", ticker,
                   TickBuyBatch(adapter, markets[1], asset_pairs, balances,
                                ticker, "none"))

LadderNext ==
    \/ LadderSell
    \/ LadderBuy

LadderSpec == LadderInit /\ [][LadderNext]_vars

\* the rungs the ladder of a side computes for a log entry's market
SideRungs(ad, entry, side) ==
    Rungs(ad, entry,
          [pair |-> RealPair(ad, asset_pairs, markets[entry.market].pair),
           side |-> side])

\* the ladders of the log: entries whose sell or buy side ran alone
Laddered == {i \in DOMAIN log : log[i].at \in {"sell", "buy"}}

\* C13: for pcnt_bump_a >= 0 and a positive reference price the rounded
\* prices of a ladder are monotone in the rung index: sell prices never
\* fall and buy prices never rise from a rung to a later one.
C13_PricesMonotone ==
    \A i \in Laddered :
        LET side == log[i].at
            params == markets[log[i].market][side]
            rungs == SideRungs(adapter, log[i], side)
            base == IF side = "sell"
                    THEN SellBasePrice(adapter, log[i].ticker)
                    ELSE BuyBasePrice(adapter, log[i].ticker)
        IN  (params.pcnt_bump_a >= 0 /\ base > 0) =>
                \A n1, n2 \in DOMAIN rungs :
                    n1 < n2 =>
                        IF side = "sell"
                        THEN rungs[n1].price <= rungs[n2].price
                        ELSE rungs[n1].price >= rungs[n2].price

\* a sell ladder of three rungs was handed to place_orders with rising
\* prices
C13_Witness ==
    \E i \in Laddered :
        /\ log[i].at = "sell"
        /\ log[i].result = "done"
        /\ markets[1].sell.pcnt_bump_a > 0
        /\ Len(log[i].calls[1].orders) = 3
        /\ log[i].calls[1].orders[1].price < log[i].calls[1].orders[2].price
        /\ log[i].calls[1].orders[2].price < log[i].calls[1].orders[3].price

Abs(x) == IF x < 0 THEN -x ELSE x

\* the volumes of a list of orders, in tenths
Volumes(orders) == [k \in DOMAIN orders |-> orders[k].volume]

\* how far the volumes handed over are from the ladder's target allocation
\* and one rounding unit of the volume, both times the same factor: the
\* target is vol_percent of the balance (sell; buy of API and KrakenAPI, in
\* base at the bid) or the fixed amount in base at the bid (buy of Bot)
VolumeGap(ad, entry, call) ==
    LET market == markets[entry.market]
        ap == asset_pairs[call.pair]
        total == SumSeq(Volumes(call.orders))
        unit == UnitTenths(ap.dp_base)
        bid == entry.ticker.bid
    IN  IF call.side = "sell"
        THEN [off |-> Abs(1000 * total - balances[ap.base].unencumbered
                                            * market.sell.vol_percent),
              unit |-> 1000 * unit]
        ELSE IF ad = "Bot"
        THEN [off |-> Abs(total * bid - market.buy.amount),
              unit |-> unit * bid]
        ELSE [off |-> Abs(100 * total * bid
                            - balances[ap.quote].unencumbered
                                * market.buy.vol_percent),
              unit |-> 100 * unit * bid]

\* C14: the volumes of the N rungs a ladder hands to place_orders sum to
\* within one rounding unit of the volume of the target allocation.
C14_VolumesSumToTarget ==
    \A c \in PlaceCalls :
        LET entry == log[c[1]]
            call == entry.calls[c[2]]
            gap == VolumeGap(adapter, entry, call)
        IN  call.orders = Rungs(adapter, entry, call)
                => gap.off <= gap.unit

\* the closing order of a handed order is on the opposite side
ClosesOpposite(order) ==
    order.close.side = IF order.side = "sell" THEN "buy" ELSE "sell"

\* C15: every order handed to place_orders carries a closing
\* order on the opposite side; for rebuy_bump_percent >= 0 the closing buy
\* of a sell rung is priced at or below the rung, and for
\* resell_bump_percent >= 0 the closing sell of a buy rung is priced at or
\* above the rung.
C15_ClosingOrdersAnyPrice ==
    \A c \in PlaceCalls :
        LET market == markets[log[c[1]].market]
            call == log[c[1]].calls[c[2]]
        IN  \A k \in DOMAIN call.orders :
                /\ call.orders[k].side = call.side
                /\ ClosesOpposite(call.orders[k])
                /\ (call.side = "sell"
                        /\ market.sell.rebuy_bump_percent >= 0)
                      => call.orders[k].close.price <= call.orders[k].price
                /\ (call.side = "buy"
                        /\ market.buy.resell_bump_percent >= 0)
                      => call.orders[k].close.price >= call.orders[k].price


\* C16: a sell ladder with order_count > 0 that finds less than 0.001 of
\* the base asset unencumbered raises and makes no call of place_orders.
C16_SellNeedsBalance ==
    \A i \in Laddered :
        LET market == markets[log[i].market]
            pair == RealPair(adapter, asset_pairs, market.pair)
            bal == balances[asset_pairs[pair].base].unencumbered
        IN  (/\ log[i].at = "sell"
             /\ market.sell.order_count > 0
             /\ bal * 10 < 1)
                => /\ log[i].result = "raised"
                   /\ log[i].calls = <<>>

\* a sell ladder of several rungs raised on an empty base balance
C16_Witness ==
    \E i \in Laddered :
        /\ log[i].at = "sell"
        /\ log[i].result = "raised"
        /\ log[i].calls = <<>>
        /\ markets[log[i].market].sell.order_count > 1
        /\ balances["XETH"].unencumbered = 0


\* C17: in the populated registry of Bot and KrakenAPI the altname of a
\* listed pair leads to the same entry as its id (same id, assets and
\* precisions), and real_pair maps both names to the id.
C17_AliasSameEntity ==
    (IsKraken(adapter) /\ asset_pairs # EmptyMap) =>
        \A p \in KrakenListing :
            /\ p.id \in DOMAIN asset_pairs
            /\ p.altname \in DOMAIN asset_pairs
            /\ asset_pairs[p.altname] = asset_pairs[p.id]
            /\ asset_pairs[p.id] = FromKraken(p.id, p)
            /\ RealPair(adapter, asset_pairs, p.altname) = p.id
            /\ RealPair(adapter, asset_pairs, p.id) = p.id

\* a market configured by altname had its orders placed under the id
C17_Witness ==
    /\ IsKraken(adapter)
    /\ \E c \in PlaceCalls :
          /\ markets[log[c[1]].market].pair = "XBTUSD"
          /\ log[c[1]].calls[c[2]].pair = "XXBTZUSD"
          /\ asset_pairs["XBTUSD"].id = "XXBTZUSD"


\* C18: a market whose pair name is no key of the registry (neither an id
\* nor an altname) fails in real_pair, whichever the adapter: no request
\* for its ticker is sent and no order is placed before the error.
C18_UnknownPairRaisesFirst ==
    \A i \in DOMAIN log :
        markets[log[i].market].pair \notin DOMAIN asset_pairs =>
            /\ log[i].result = "raised"
            /\ log[i].at = "real_pair"
            /\ log[i].wire = <<>>
            /\ log[i].calls = <<>>

\* a request follows a request with no delay between them
Undelayed(events) ==
    \E i \in 1..(Len(events) - 1) :
        IsRequest(events[i]) /\ IsRequest(events[i + 1])

\* C19: every request sent to the exchange, answered or failed, is followed
\* by the inter-request delay (or the sleep that ends the cycle) before the
\* next request is sent.
C19_DelayAfterEveryRequest == ~Undelayed(wire)

\* the ids recorded for a pair
IdsOf(ids, pair) == IF pair \in DOMAIN ids THEN ids[pair] ELSE <<>>

RECURSIVE MadeByCalls(_, _)
MadeByCalls(calls, pair) ==
    IF calls = <<>> THEN 0
    ELSE (IF Head(calls).pair = pair THEN Made(Head(calls)) ELSE 0)
            + MadeByCalls(Tail(calls), pair)

\* the opening orders created for a pair by the markets processed so far in
\* this cycle
RECURSIVE MadeIn(_, _)
MadeIn(entries, pair) ==
    IF entries = <<>> THEN 0
    ELSE MadeByCalls(Head(entries).calls, pair)
            + MadeIn(Tail(entries), pair)

\* cancel_orders returned without raising
CancelCompleted ==
    /\ pc = "cancel_orders"
    /\ pc' = LoopNext(adapter, "cancel_orders", Len(markets))

-----------------------------------------------------------------------------
(* The conversions of objects.py as functions of their inputs *)

\* Order.close when the order has no closing order
None == <<>>

\* str() of a float that holds a number of tenths: "12.3", "3.0", "-2.4"
StrFloat(t) ==
    (IF t < 0 THEN "-" ELSE "")
        \o ToString((IF t < 0 THEN -t ELSE t) \div 10)
        \o "." \o ToString((IF t < 0 THEN -t ELSE t) % 10)

\* the part of the request every order has
KrakenOpening(order) ==
    [ordertype |-> order.ordertype, type |-> order.side,
     volume |-> StrFloat(order.volume), price |-> StrFloat(order.price),
     stptype |-> "cancel-newest", oflags |-> "fciq",
     timeinforce |-> order.tif, starttm |-> "0", expiretm |-> order.expire]

\* to_kraken whose closing order repeats the side of the order
ToKraken_CloseSameSide(order) ==
    IF order.close = None THEN KrakenOpening(order)
    ELSE KrakenOpening(order) @@
            [close |-> [ordertype |-> order.ordertype, type |-> order.side,
                        price |-> StrFloat(order.close.price)]]

\* Order.to_kraken
ToKraken(order) ==
    IF order.close = None THEN KrakenOpening(order)
    ELSE KrakenOpening(order) @@
            [close |-> [ordertype |-> order.ordertype,
                        type |-> order.close.side,
                        price |-> StrFloat(order.close.price)]]

\* the orders given to to_kraken (prices and volumes in tenths)
ObjectOrders ==
    [expire : {"+900", "+60"}, ordertype : {"limit", "market"},
     price : {-24, 0, 123, 300}, side : {"buy", "sell"},
     tif : {"GTD", "GTC"}, volume : {0, 5, 12345},
     close : {None} \cup [side : {"buy", "sell"}, price : {-26, 0, 126}]]

ObjectDecimals == {0, 3, 8, 11}

\* the entries of Kraken's AssetPairs given to from_kraken under an id
ObjectKrakenPairs ==
    [pair_id : {"1INCHEUR", "XXBTZUSD"},
     pair : [altname : {"1INCHEUR", "XBTUSD"}, base : {"1INCH", "XXBT"},
             quote : {"ZEUR", "ZUSD"}, lot_decimals : ObjectDecimals,
             pair_decimals : ObjectDecimals]]

\* the entries of gate.io's list_currency_pairs given to from_gateio
ObjectGatePairs ==
    [id : {"100X_USDT", "ETH_USDT"}, base : {"100X", "ETH"},
     quote : {"USDT", "BTC"}, amount_precision : ObjectDecimals,
     precision : ObjectDecimals]

ObjectsInit ==
    /\ adapter \in Adapters
    /\ configfile = <<>>
    /\ markets = <<>>
    /\ connected = FALSE
    /\ asset_pairs = EmptyMap
    /\ balances = EmptyMap
    /\ open_order_ids = EmptyMap
    /\ pc = "convert"
    /\ mi = 1
    /\ steps = <<>>
    /\ log = <<>>
    /\ failed = "none"
    /\ bal_reply = EmptyMap
    /\ oo_reply = <<>>
    /\ enum_count = 0
    /\ refreshed = FALSE
    /\ wire = <<>>
    /\ clock = NoClock
    /\ \/ \E o \in ObjectOrders : obj = [kind |-> "Order", given |-> o]
       \/ \E p \in ObjectKrakenPairs :
             obj = [kind |-> "Kraken pair", given |-> p]
       \/ \E p \in ObjectGatePairs :
             obj = [kind |-> "gate.io pair", given |-> p]

\* a conversion returns what it built
Converts(kind, built) ==
    /\ pc = "convert"
    /\ obj.kind = kind
    /\ obj' = [kind |-> kind, given |-> obj.given, built |-> built]
    /\ pc' = "converted"
    /\ UNCHANGED <<adapter, configfile, markets, connected, asset_pairs,
                   balances, open_order_ids, mi, steps, log, failed,
                   bal_reply, oo_reply, enum_count, refreshed, wire, clock>>

OrderToKraken == Converts("Order", ToKraken(obj.given))

AssetPairFromKraken ==
    Converts("Kraken pair", FromKraken(obj.given.pair_id, obj.given.pair))

AssetPairFromGateio == Converts("gate.io pair", FromGateio(obj.given))

ObjectsNext ==
    \/ OrderToKraken
    \/ AssetPairFromKraken
    \/ AssetPairFromGateio

ObjectsSpec == ObjectsInit /\ [][ObjectsNext]_vars

\* a conversion of the kind has returned
Converted(kind) == pc = "converted" /\ obj.kind = kind

\* C21: Order.to_kraken maps the order field by field: ordertype, side ->
\* type, tif -> timeinforce, expire -> expiretm, price and volume as the
\* strings of their numbers, stptype "cancel-newest", oflags "fciq",
\* starttm "0"; the request has a "close" entry exactly when the order has a
\* closing order, and that entry holds the order's ordertype, the closing
\* side as type and the closing price as a string, and nothing else.
C21_ToKrakenFieldByField ==
    Converted("Order") =>
        LET o == obj.given
            k == obj.built
        IN  /\ k.ordertype = o.ordertype
            /\ k.type = o.side
            /\ k.timeinforce = o.tif
            /\ k.expiretm = o.expire
            /\ k.price = StrFloat(o.price)
            /\ k.volume = StrFloat(o.volume)
            /\ k.stptype = "cancel-newest"
            /\ k.oflags = "fciq"
            /\ k.starttm = "0"
            /\ ("close" \in DOMAIN k) <=> (o.close # None)
            /\ DOMAIN k \ {"close"} =
                  {"ordertype", "type", "volume", "price", "stptype",
                   "oflags", "timeinforce", "starttm", "expiretm"}
            /\ o.close # None =>
                  /\ DOMAIN k.close = {"ordertype", "type", "price"}
                  /\ k.close.ordertype = o.ordertype
                  /\ k.close.type = o.close.side
                  /\ k.close.price = StrFloat(o.close.price)

\* the order of the repository's test, in tenths: a buy of 1234.5 at 12.3
\* that closes with a sell at 12.6
C21_Witness ==
    /\ Converted("Order")
    /\ obj.given = [expire |-> "+900", ordertype |-> "limit", price |-> 123,
                    side |-> "buy", tif |-> "GTD", volume |-> 12345,
                    close |-> [side |-> "sell", price |-> 126]]
    /\ obj.built.price = "12.3"
    /\ obj.built.volume = "1234.5"
    /\ obj.built.close = [ordertype |-> "limit", type |-> "sell",
                          price |-> "12.6"]

\* C22: an asset pair built from a listing keeps the pair's identity and
\* precisions: from_kraken gives exchange "Kraken", the id it was given,
\* base and quote of the listing, dp_base = lot_decimals and dp_quote =
\* pair_decimals; from_gateio gives exchange "gate.io", id, base and quote
\* of the listing, dp_base = amount_precision and dp_quote = precision.
C22_AssetPairFromListing ==
    /\ Converted("Kraken pair") =>
          LET p == obj.given.pair
              a == obj.built
          IN  /\ a.exchange = "Kraken"
              /\ a.id = obj.given.pair_id
              /\ a.base = p.base
              /\ a.quote = p.quote
              /\ a.dp_base = p.lot_decimals
              /\ a.dp_quote = p.pair_decimals
    /\ Converted("gate.io pair") =>
          LET p == obj.given
              a == obj.built
          IN  /\ a.exchange = "gate.io"
              /\ a.id = p.id
              /\ a.base = p.base
              /\ a.quote = p.quote
              /\ a.dp_base = p.amount_precision
              /\ a.dp_quote = p.precision

\* the pair of the repository's test of from_kraken, with different
\* precisions for volumes and prices
C22_Witness ==
    /\ Converted("Kraken pair")
    /\ obj.given.pair_id = "1INCHEUR"
    /\ obj.given.pair.lot_decimals = 8
    /\ obj.given.pair.pair_decimals = 3
    /\ obj.built = [exchange |-> "Kraken", id |-> "1INCHEUR",
                    base |-> "1INCH", quote |-> "ZEUR", dp_base |-> 8,
                    dp_quote |-> 3]

\* C23: place_orders leaves the orders it was given as the ladder built
\* them, whatever the size of the batch: no field changed, none added.
C23_OrdersNeverMutated ==
    \A c \in PlaceCalls :
        log[c[1]].calls[c[2]].after = log[c[1]].calls[c[2]].orders

\* vol_buy of rung n when the fixed quote amount is converted to base at
\* the given price
SizedAt(market, ap, price, n) ==
    RoundDp(market.buy.amount * SqrtMilli[n],
            price * VolTotal(market.buy.order_count), ap.dp_base)

\* C24: in Bot's buy ladder the fixed quote amount is converted to base at
\* the reference price, the price the rungs are offset from (the least of
\* bid, vwap and the 24h low): the volume of rung n is
\* round((amount / reference_price) / vol_total * sqrt(n)).
C24_SizedAtReferencePrice ==
    adapter = "Bot" =>
        \A c \in PlaceCalls :
            LET entry == log[c[1]]
                call == entry.calls[c[2]]
                market == markets[entry.market]
                ap == asset_pairs[call.pair]
            IN  (call.side = "buy" /\ BuyBasePrice("Bot", entry.ticker) > 0)
                    => \A n \in DOMAIN call.orders :
                          call.orders[n].volume =
                              SizedAt(market, ap,
                                      BuyBasePrice("Bot", entry.ticker), n)

\* the markets of this cycle whose sell ladder raised
SellFailed == {i \in DOMAIN log : log[i].at = "sell"}

\* what the buy side of a log entry's market hands to place_orders when it
\* is run on the entry's ticker
BuySideCalls(entry) ==
    TickBuyBatch(adapter, markets[entry.market], asset_pairs, balances,
                 entry.ticker, "none").calls

\* C25: when the sell ladder of a market raises (too little unencumbered
\* base, or place_orders failed), the market's processing ends there: no
\* call of place_orders for the buy side is made for that market in that
\* cycle, and on gate.io the ids the market recorded are those of its sell
\* orders only.
C25_SellFailureSkipsBuy ==
    [][(pc = "tick" /\ Logged(log, log') /\ Last(log').at = "sell") =>
         /\ Last(log').result = "raised"
         /\ \A j \in DOMAIN Last(log').calls :
                Last(log').calls[j].side = "sell"
         /\ Len(Last(log').calls) <= 1
         /\ adapter = "GateIOAPI" =>
                \A pair \in DOMAIN open_order_ids' :
                    Len(open_order_ids'[pair])
                        = Len(IdsOf(open_order_ids, pair))
                            + MadeByCalls(Last(log').calls, pair)]_vars

\* one market's sell ladder raised for its balance and another's in
\* place_orders, and the buy side of both would have placed orders
C25_Witness ==
    \E i, j \in SellFailed :
        /\ log[i].calls = <<>>
        /\ log[j].calls # <<>>
        /\ ~log[j].calls[1].ok
        /\ BuySideCalls(log[i]) # <<>>
        /\ BuySideCalls(log[j]) # <<>>

\* C26: every order handed to place_orders has a volume above zero, on both
\* sides and whatever the ledger holds when the ladder is computed.
C26_PositiveVolumes ==
    \A c \in PlaceCalls :
        \A n \in DOMAIN log[c[1]].calls[c[2]].orders :
            log[c[1]].calls[c[2]].orders[n].volume > 0

\* C27: computing and submitting ladders leaves the ledger as it was: the
\* processing of a market changes the total and the unencumbered balance of
\* no asset, and every step that changes the ledger is get_balances or
\* get_open_orders.
C27_LaddersLeaveLedger ==
    [][/\ pc = "tick" => balances' = balances
       /\ balances' # balances =>
             StepName(pc) \in {"get_balances", "get_open_orders"}]_vars

\* orders were created for a market and the ledger still is what the
\* balance query gave
C27_Witness ==
    /\ oo_reply = <<>>
    /\ balances # EmptyMap
    /\ balances = Ledger(adapter, bal_reply)
    /\ \E c \in PlaceCalls :
          /\ log[c[1]].calls[c[2]].ok
          /\ log[c[1]].calls[c[2]].orders # <<>>
          /\ CallFunds(log[c[1]].calls[c[2]],
                       asset_pairs[log[c[1]].calls[c[2]].pair].base) > 0

\* C28: on gate.io the enumeration of the open orders leaves the ledger as
\* it was, for every asset and whatever orders rest: after it the
\* unencumbered balance still is what get_balances set, available minus
\* locked.
C28_GateEnumerationLeavesLedger ==
    [][(adapter = "GateIOAPI" /\ StepName(pc) = "get_open_orders") =>
         /\ balances' = balances
         /\ balances # EmptyMap =>
               \A a \in DOMAIN balances' :
                  /\ balances'[a].total = bal_reply[a].available
                  /\ balances'[a].unencumbered =
                        bal_reply[a].available - bal_reply[a].locked]_vars

\* resting orders of a pair whose assets have funds locked were enumerated
\* and the ledger still is the one get_balances built
C28_Witness ==
    /\ adapter = "GateIOAPI"
    /\ pc = "cancel_orders"
    /\ Len(oo_reply) = 2
    /\ balances = GateLedger(bal_reply)
    /\ balances["XXBT"].unencumbered = -300

\* the opening orders the exchange created among the requests of a market:
\* the create_order requests that returned (the delay follows them)
OpeningsCreated(events) ==
    Cardinality({i \in 1..(Len(events) - 1) :
                    events[i] = "create_order" /\ events[i + 1] = "delay"})

\* list a begins list b
Begins(a, b) == Len(a) <= Len(b) /\ a = SubSeq(b, 1, Len(a))

\* C29: on gate.io the id of every opening order the exchange created is in
\* the list of its pair from then on, also when a later request of the same
\* call of place_orders raises, and only those ids are added (none for a
\* closing order); a recorded id leaves the list only in cancel_orders.
C29_OpeningIdsRecorded ==
    [][adapter = "GateIOAPI" =>
        /\ (pc = "tick" /\ Logged(log, log')) =>
              \A pair \in DOMAIN open_order_ids' :
                 Len(open_order_ids'[pair]) =
                    Len(IdsOf(open_order_ids, pair))
                      + (IF \E j \in DOMAIN Last(log').calls :
                               Last(log').calls[j].pair = pair
                         THEN OpeningsCreated(Last(log').wire) ELSE 0)
        /\ pc # "cancel_orders" =>
              \A pair \in DOMAIN open_order_ids :
                 /\ pair \in DOMAIN open_order_ids'
                 /\ Begins(open_order_ids[pair], open_order_ids'[pair])
        /\ \A pair \in DOMAIN open_order_ids' :
              NoRepeat(open_order_ids'[pair])]_vars

\* the closing order of the second rung raised: the ids of both opening
\* orders are recorded
C29_Witness ==
    /\ adapter = "GateIOAPI"
    /\ \E c \in PlaceCalls :
          LET call == log[c[1]].calls[c[2]]
          IN  /\ ~call.ok
              /\ call.sent = 4
              /\ Len(call.orders) >= 2
              /\ Len(IdsOf(open_order_ids, call.pair)) >= 2

-----------------------------------------------------------------------------
(* Bot.loop with time: how long the opening orders rest *)

\* order_lifespan_seconds of the configuration file, in units of time
Lifespans == {3, 6}

\* the time a query to the exchange takes: a round trip, never nothing
QueryTimes == {1, 2}

\* the time a step without a query takes (load_cfg, connect,
\* print_all_balances)
LocalTimes == {0, 1}

\* by how much time.sleep can return late
Oversleep == {0, 1}

\* the time a global step of the loop takes
StepTimes(step) ==
    IF step \in {"load_cfg", "connect", "print_all_balances"}
    THEN LocalTimes ELSE QueryTimes

\* the resting orders after d units of time: an order placed with expiretm
\* "+n" rests until n units after the exchange took it
Pass(resting, d) ==
    {[left |-> o.left - d, earlier |-> o.earlier] :
        o \in {r \in resting : r.left - d > 0}}

\* a loop that sleeps the delay between two requests instead
SleepTime_NoWait(lifespan) == 0

\* sleep_time = self.order_lifespan_seconds
SleepTime(lifespan) == lifespan

TimedInit ==
    /\ adapter = "Bot"
    /\ configfile \in {c \in Configs : c # <<>>}
    /\ markets = <<>>
    /\ connected = FALSE
    /\ asset_pairs = EmptyMap
    /\ balances = EmptyMap
    /\ open_order_ids = EmptyMap
    /\ pc = "load_cfg"
    /\ mi = 1
    /\ steps = <<>>
    /\ log = <<>>
    /\ failed = "none"
    /\ bal_reply = EmptyMap
    /\ oo_reply = <<>>
    /\ enum_count = 0
    /\ refreshed = FALSE
    /\ wire = <<>>
    /\ obj = NoObject
    /\ \E n \in Lifespans :
          clock = [lifespan |-> n, resting |-> {}, placed |-> FALSE,
                   before |-> FALSE]

\* what the timed loop leaves alone
TimedFrame ==
    UNCHANGED <<adapter, configfile, connected, asset_pairs, balances,
                open_order_ids, log, bal_reply, oo_reply, enum_count,
                refreshed, wire, obj>>

\* load_cfg starts a cycle: the lifespan is read again, and what rests was
\* placed by an earlier cycle
TimedLoadCfg ==
    /\ pc = "load_cfg"
    /\ \E ok \in BOOLEAN, n \in Lifespans, d \in StepTimes("load_cfg") :
          /\ markets' = IF ok THEN configfile ELSE markets
          /\ clock' = [lifespan |-> IF ok THEN n ELSE clock.lifespan,
                       resting |-> {[left |-> o.left, earlier |-> TRUE] :
                                        o \in Pass(clock.resting, d)},
                       placed |-> FALSE,
                       before |-> clock.placed]
          /\ pc' = IF ok THEN BotLoopNext(pc, Len(markets'))
                   ELSE BotOnRaise
          /\ failed' = IF ok THEN "none" ELSE "load_cfg"
    /\ steps' = <<"load_cfg">>
    /\ mi' = 1
    /\ TimedFrame

\* the steps of the loop around the markets
TimedGlobalStep ==
    /\ pc \in {"connect", "get_asset_pairs", "get_balances",
                "get_open_orders", "get_balances_after",
                "get_open_orders_after", "print_all_balances"}
    /\ \E ok \in BOOLEAN, d \in StepTimes(StepName(pc)) :
          /\ clock' = [clock EXCEPT !.resting = Pass(@, d)]
          /\ StepEnds(ok)
    /\ UNCHANGED <<markets, mi>>
    /\ TimedFrame

\* one market: the ticker query, then the orders the exchange takes with
\* expiretm "+lifespan" (none when the market is skipped or raises before),
\* then the rest of the query
TimedTick ==
    /\ pc = "tick"
    /\ \E placed \in BOOLEAN, result \in {"done", "raised"},
          d1 \in QueryTimes, d2 \in QueryTimes :
          /\ clock' =
                [clock EXCEPT
                    !.resting =
                        Pass(Pass(@, d1) \cup
                                (IF placed
                                 THEN {[left |-> clock.lifespan,
                                        earlier |-> FALSE]}
                                 ELSE {}), d2),
                    !.placed = @ \/ placed]
          /\ pc' = AfterMarket("Bot", mi, markets, result).pc
          /\ mi' = AfterMarket("Bot", mi, markets, result).mi
    /\ steps' = Append(steps, "tick")
    /\ UNCHANGED <<markets, failed>>
    /\ TimedFrame

\* time.sleep(sleep_time)
TimedSleep ==
    /\ pc = "sleep"
    /\ \E late \in Oversleep :
          clock' = [clock EXCEPT
                      !.resting = Pass(@, SleepTime(clock.lifespan) + late)]
    /\ StepEnds(TRUE)
    /\ UNCHANGED <<markets, mi>>
    /\ TimedFrame

TimedNext ==
    \/ TimedLoadCfg
    \/ TimedGlobalStep
    \/ TimedTick
    \/ TimedSleep

TimedSpec == TimedInit /\ [][TimedNext]_vars

\* C30: in Bot.loop, when a cycle enumerates the open orders and computes
\* its ladders, no opening order placed by an earlier cycle is resting: each
\* was placed good-till-date with the lifespan the cycle then slept.
C30_EarlierOrdersExpired ==
    pc \in {"get_open_orders", "tick"} =>
        \A o \in clock.resting : ~o.earlier

\* the cycle before placed orders, and this cycle's ladders are computed
\* while only its own orders rest
C30_Witness ==
    /\ pc = "tick"
    /\ mi = 2
    /\ clock.before
    /\ clock.resting # {}
    /\ \A o \in clock.resting : ~o.earlier

=============================================================================
